---- MODULE Spec2Model ----
(***************************************************************************)
(* Model of envs/airsim_drone_env_0.py: the AirSimDroneEnv adapter         *)
(* (reset, step, calculate_reward, _get_state) around the flight           *)
(* simulator.                                                              *)
(*                                                                         *)
(* Numbers.  Coordinates are integers.  A Euclidean / Frobenius norm is    *)
(* the real number sqrt(n) for an integer n >= 0; it is represented        *)
(* exactly by n, and an order comparison between two non-negative reals    *)
(* is made on their squares.  A reward is an exact linear form over the    *)
(* reward magnitudes of the configuration module, which the source reads   *)
(* but does not contain: const + REWARD_DISTANCE_GAIN * gain               *)
(* + REWARD_DISTANCE_LOSS * loss.                                          *)
(***************************************************************************)
EXTENDS Integers, Sequences, FiniteSets, TLC

VARIABLES
    simPos,           \* simulator: kinematics_estimated.position
    simCloud,         \* simulator: LiDAR point_cloud, a flat list of floats
    step_count,       \* self.step_count
    step_in_episode,  \* self.step_in_episode, or Undefined before it is set
    lastCall,         \* "init", "reset", "step" (returned), "step_error" (raised)
    observation,      \* the observation the last call returned
    ret,              \* what the last step call computed and returned
    pre,              \* the two counters as they were when the last call began
    reset_called,     \* reset has been called on this adapter
    run               \* consecutive steps that returned terminal=false

vars == <<simPos, simCloud, step_count, step_in_episode, lastCall,
          observation, ret, pre, reset_called, run>>

-----------------------------------------------------------------------------
(* Configuration values and program constants *)

\* config.MAX_STEPS and config.SAFE_BOUND: the configuration module is not
\* part of the source; the properties are checked for these values
max_steps == 2
safe_bound == 2

\* config.TARGET_POSITION, inside the safe boundary
target_pos == <<1, 0, -2>>

\* the 80 LiDAR rows, the goal radius 1, the command duration 0.5 (in tenths)
num_points == 80
GoalRadius == 1
DurationTenths == 5

\* the value of an attribute that was never assigned (no counter is negative)
Undefined == 0 - 1

\* the lifetime counter is capped so that the model is finite
MaxLifetime == max_steps + 1

\* the part of the simulator's world the model explores
XCoords == 0 .. (safe_bound + 1)
ZCoords == {-2, -1}
InWorld(p) == p[1] \in XCoords /\ p[2] = 0 /\ p[3] \in ZCoords

\* the actions the model draws: (vx, vy, vz, yaw_rate)
ForwardVelocities == {0, 2}
DownVelocities == {-2, 0}
YawRates == {0, 1}
Actions ==
    {<<vx, 0, vz, yaw>> : vx \in ForwardVelocities, vz \in DownVelocities, yaw \in YawRates}

-----------------------------------------------------------------------------
(* Raw LiDAR point clouds the simulator may return *)

PointAt(i, p1, p2) == IF i = 1 THEN p1 ELSE IF i = 2 THEN p2 ELSE <<i, i + 1, i + 2>>

\* n points as the flat buffer x1, y1, z1, x2, y2, z2, ...
Cloud(n, p1, p2) ==
    [k \in 1 .. (3 * n) |-> PointAt(((k - 1) \div 3) + 1, p1, p2)[((k - 1) % 3) + 1]]

Clouds == { Cloud(0, target_pos, target_pos),
            Cloud(1, target_pos, target_pos),
            Cloud(num_points, target_pos, target_pos),
            Cloud(num_points + 1, target_pos, target_pos),
            Cloud(num_points + 3, target_pos, target_pos) }

-----------------------------------------------------------------------------
(* Exact arithmetic *)

Sq(x) == x * x

\* row - v, for rows of 3 values (numpy broadcasting of a 3-vector over rows)
SubRows(rows, v) == [i \in 1 .. Len(rows) |-> [j \in 1 .. 3 |-> rows[i][j] - v[j]]]

RECURSIVE SumSq(_)
SumSq(rows) ==
    IF rows = <<>> THEN 0
    ELSE Sq(Head(rows)[1]) + Sq(Head(rows)[2]) + Sq(Head(rows)[3]) + SumSq(Tail(rows))

\* np.linalg.norm of a sequence of rows: sqrt(Norm(rows))
Norm(rows) == SumSq(rows)

\* the real number sqrt(a) - sqrt(b)
Diff(a, b) == [plus |-> a, minus |-> b]
IsPositive(d) == d.plus > d.minus
IsZero(d) == d.plus = d.minus
Abs(d) == IF d.minus > d.plus THEN [plus |-> d.minus, minus |-> d.plus] ELSE d

\* x ** (num/den) for x >= 0: zero for zero, otherwise the power itself
Zero == [base |-> Diff(0, 0), exp |-> <<1, 1>>]
Pow(d, num, den) == IF IsZero(d) THEN Zero ELSE [base |-> d, exp |-> <<num, den>>]

\* a reward: const + REWARD_DISTANCE_GAIN * gain + REWARD_DISTANCE_LOSS * loss
Reward(name) == [const |-> name, gain |-> Zero, loss |-> Zero]
AddGain(r, x) == IF x = Zero THEN r ELSE [r EXCEPT !.gain = x]
AddLoss(r, x) == IF x = Zero THEN r ELSE [r EXCEPT !.loss = x]

-----------------------------------------------------------------------------
(* _get_state *)

\* np.array(point_cloud).reshape(-1, 3)
Reshape(flat) ==
    [i \in 1 .. (Len(flat) \div 3) |-> <<flat[3 * i - 2], flat[3 * i - 1], flat[3 * i]>>]

\* np.zeros((k, 3))
Zeros(k) == [i \in 1 .. k |-> <<0, 0, 0>>]

\* variant: an overlong cloud is cut to its last num_points rows
FixPoints_KeepLast(lidar_points) ==
    IF Len(lidar_points) < num_points
    THEN lidar_points \o Zeros(num_points - Len(lidar_points))
    ELSE IF Len(lidar_points) > num_points
    THEN SubSeq(lidar_points, Len(lidar_points) - num_points + 1, Len(lidar_points))
    ELSE lidar_points

\* the LiDAR rows fixed to num_points rows: zero-padded or cut to the first ones
FixPoints(lidar_points) ==
    IF Len(lidar_points) < num_points
    THEN lidar_points \o Zeros(num_points - Len(lidar_points))
    ELSE IF Len(lidar_points) > num_points
    THEN SubSeq(lidar_points, 1, num_points)
    ELSE lidar_points

\* the (81, 3) state: the drone position, then the LiDAR rows
LidarRows == [cloud \in Clouds |-> FixPoints(Reshape(cloud))]
_get_state(pos, cloud) == <<pos>> \o LidarRows[cloud]

-----------------------------------------------------------------------------
(* calculate_reward *)

center == <<0, 0, -2>>

NoReward == Reward("none")

\* variant: the step limit compared with > instead of >=
StepLimitReached_Strict(sie) == sie > max_steps

\* self.step_in_episode >= self.max_steps
StepLimitReached(sie) == sie >= max_steps

\* current_distance < 1
GoalReached(current_distance) == current_distance < Sq(GoalRadius)

\* variant: the boundary compared with >= instead of >
OutOfBounds_Inclusive(new_state) ==
    Norm(SubRows(<<new_state[1]>>, center)) >= Sq(safe_bound)

\* np.linalg.norm(new_state[0] - center) > self.safe_bound
OutOfBounds(new_state) == Norm(SubRows(<<new_state[1]>>, center)) > Sq(safe_bound)

\* variant: the gain and loss coefficients exchanged
ShapedReward_Swapped(prev_distance, current_distance) ==
    LET reward == Reward("REWARD_STEP")
        distance_change == Diff(prev_distance, current_distance)
    IN  IF IsPositive(distance_change)
        THEN AddLoss(reward, Pow(distance_change, 3, 2))
        ELSE AddGain(reward, Pow(Abs(distance_change), 3, 2))

\* REWARD_STEP plus the shaping term of the distance change
ShapedReward(prev_distance, current_distance) ==
    LET reward == Reward("REWARD_STEP")
        distance_change == Diff(prev_distance, current_distance)
    IN  IF IsPositive(distance_change)
        THEN AddGain(reward, Pow(distance_change, 3, 2))
        ELSE AddLoss(reward, Pow(Abs(distance_change), 3, 2))

\* variant: the goal test made before the step-limit test
calculate_reward_GoalFirst(prev_distance, current_distance, new_state, has_collided, sie) ==
    IF has_collided
    THEN [raised |-> FALSE, reward |-> Reward("REWARD_COLLISION"), done |-> TRUE,
          step_in_episode |-> 0]
    ELSE IF sie = Undefined
    THEN [raised |-> TRUE, reward |-> NoReward, done |-> FALSE, step_in_episode |-> sie]
    ELSE IF GoalReached(current_distance)
    THEN [raised |-> FALSE, reward |-> Reward("REWARD_GOAL"), done |-> TRUE,
          step_in_episode |-> 0]
    ELSE IF StepLimitReached(sie)
    THEN [raised |-> FALSE, reward |-> Reward("REWARD_MAX_STEP_EXCEED"), done |-> TRUE,
          step_in_episode |-> 0]
    ELSE IF OutOfBounds(new_state)
    THEN [raised |-> FALSE, reward |-> Reward("REWARD_OUT_OF_BOUNDS"), done |-> TRUE,
          step_in_episode |-> 0]
    ELSE [raised |-> FALSE, reward |-> ShapedReward(prev_distance, current_distance),
          done |-> FALSE, step_in_episode |-> sie + 1]

\* (reward, done), the per-episode counter it leaves, and whether it raised:
\* reading the counter before reset has set it is an AttributeError
calculate_reward(prev_distance, current_distance, new_state, has_collided, sie) ==
    IF has_collided
    THEN [raised |-> FALSE, reward |-> Reward("REWARD_COLLISION"), done |-> TRUE,
          step_in_episode |-> 0]
    ELSE IF sie = Undefined
    THEN [raised |-> TRUE, reward |-> NoReward, done |-> FALSE, step_in_episode |-> sie]
    ELSE IF StepLimitReached(sie)
    THEN [raised |-> FALSE, reward |-> Reward("REWARD_MAX_STEP_EXCEED"), done |-> TRUE,
          step_in_episode |-> 0]
    ELSE IF GoalReached(current_distance)
    THEN [raised |-> FALSE, reward |-> Reward("REWARD_GOAL"), done |-> TRUE,
          step_in_episode |-> 0]
    ELSE IF OutOfBounds(new_state)
    THEN [raised |-> FALSE, reward |-> Reward("REWARD_OUT_OF_BOUNDS"), done |-> TRUE,
          step_in_episode |-> 0]
    ELSE [raised |-> FALSE, reward |-> ShapedReward(prev_distance, current_distance),
          done |-> FALSE, step_in_episode |-> sie + 1]

-----------------------------------------------------------------------------
(* step *)

\* variant: the yaw rate handed on to the simulator with the velocity
Command_WithYaw(action) == <<action[1], action[2], action[3], DurationTenths, action[4]>>

\* moveByVelocityAsync(vx, vy, vz, duration=0.5)
Command(action) == <<action[1], action[2], action[3], DurationTenths>>

\* the simulator flies the command: velocity times duration
SimMove(pos, command) ==
    [j \in 1 .. 3 |-> pos[j] + ((command[j] * command[4]) \div 10)]

\* variant: the lifetime counter incremented on non-terminal steps only
NextStepCount_NonTerminal(count, done) == IF done THEN count ELSE count + 1

\* self.step_count += 1
NextStepCount(count, done) == count + 1

\* one step call, given the point cloud and the collision flag the simulator
\* reports after the move
step(action, cloud2, has_collided) ==
    LET state == _get_state(simPos, simCloud)
        command == Command(action)
        new_pos == SimMove(simPos, command)
        new_state == _get_state(new_pos, cloud2)
        prev_distance == Norm(SubRows(SubSeq(state, 1, 3), target_pos))
        current_distance == Norm(SubRows(SubSeq(new_state, 1, 3), target_pos))
        r == calculate_reward(prev_distance, current_distance, new_state,
                              has_collided, step_in_episode)
    IN  [simPos |-> new_pos,
         simCloud |-> cloud2,
         raised |-> r.raised,
         step_in_episode |-> r.step_in_episode,
         step_count |-> IF r.raised THEN step_count
                        ELSE NextStepCount(step_count, r.done),
         new_state |-> new_state,
         reward |-> r.reward,
         done |-> r.done,
         command |-> command,
         has_collided |-> has_collided,
         prev_position |-> state[1],
         prev_distance |-> prev_distance,
         current_distance |-> current_distance]

Returned(action, o) ==
    [action |-> action, command |-> o.command, has_collided |-> o.has_collided,
     reward |-> o.reward, done |-> o.done, prev_position |-> o.prev_position,
     prev_distance |-> o.prev_distance, current_distance |-> o.current_distance]

NoStep == Returned(<<0, 0, 0, 0>>,
                   [command |-> <<0, 0, 0, 0>>, has_collided |-> FALSE, reward |-> NoReward,
                    done |-> FALSE, prev_position |-> <<0, 0, 0>>, prev_distance |-> 0,
                    current_distance |-> 0])

\* step returns (new_state, reward, done, {})
Step ==
    /\ step_count < MaxLifetime
    /\ \E action \in Actions, cloud2 \in Clouds, has_collided \in BOOLEAN :
        \E o \in {step(action, cloud2, has_collided)} :
            /\ InWorld(o.simPos)
            /\ ~o.raised
            /\ simPos' = o.simPos
            /\ simCloud' = o.simCloud
            /\ step_count' = o.step_count
            /\ step_in_episode' = o.step_in_episode
            /\ lastCall' = "step"
            /\ observation' = o.new_state
            /\ ret' = Returned(action, o)
            /\ pre' = [step_count |-> step_count, step_in_episode |-> step_in_episode]
            /\ run' = IF o.done THEN 0 ELSE run + 1
            /\ UNCHANGED reset_called

\* step raises out of calculate_reward, after the move, before step_count += 1
StepRaises ==
    /\ step_count < MaxLifetime
    /\ \E action \in Actions, cloud2 \in Clouds, has_collided \in BOOLEAN :
        \E o \in {step(action, cloud2, has_collided)} :
            /\ InWorld(o.simPos)
            /\ o.raised
            /\ simPos' = o.simPos
            /\ simCloud' = o.simCloud
            /\ step_count' = o.step_count
            /\ step_in_episode' = o.step_in_episode
            /\ lastCall' = "step_error"
            /\ ret' = Returned(action, o)
            /\ pre' = [step_count |-> step_count, step_in_episode |-> step_in_episode]
            /\ UNCHANGED <<observation, reset_called, run>>

-----------------------------------------------------------------------------
(* reset *)

\* moveToPositionAsync(0, 0, -1, 1)
ResetPosition == <<0, 0, -1>>

\* variant: reset leaves the lifetime counter as it is
ResetCounters_KeepLifetime == [step_count |-> step_count, step_in_episode |-> 0]

\* self.step_count = 0 ... self.step_in_episode = 0
ResetCounters == [step_count |-> 0, step_in_episode |-> 0]

Reset ==
    \E cloud2 \in Clouds :
        /\ simPos' = ResetPosition
        /\ simCloud' = cloud2
        /\ step_count' = ResetCounters.step_count
        /\ step_in_episode' = ResetCounters.step_in_episode
        /\ lastCall' = "reset"
        /\ observation' = _get_state(ResetPosition, cloud2)
        /\ ret' = NoStep
        /\ pre' = [step_count |-> step_count, step_in_episode |-> step_in_episode]
        /\ reset_called' = TRUE
        /\ run' = 0

-----------------------------------------------------------------------------
(* __init__ *)

\* variant: __init__ also sets self.step_in_episode = 0
InitCounters_Defined == [step_count |-> 0, step_in_episode |-> 0]

\* __init__ sets self.step_count = 0 and leaves self.step_in_episode unset
InitCounters == [step_count |-> 0, step_in_episode |-> Undefined]

\* the adapter after construction; the simulator holds the drone somewhere
Init ==
    /\ simPos \in {ResetPosition, <<0, 0, -2>>}
    /\ simCloud \in Clouds
    /\ step_count = InitCounters.step_count
    /\ step_in_episode = InitCounters.step_in_episode
    /\ lastCall = "init"
    /\ observation = <<>>
    /\ ret = NoStep
    /\ pre = InitCounters
    /\ reset_called = FALSE
    /\ run = 0

Next == Step \/ StepRaises \/ Reset

Spec == Init /\ [][Next]_vars

-----------------------------------------------------------------------------
(* Properties.  The conditions are written out here on the recorded call,  *)
(* independently of the operators of calculate_reward.                     *)

Returns == lastCall = "step"

\* sqrt(d) < r and sqrt(d) > r, for r >= 0
Below(d, r) == d < r * r
Above(d, r) == d > r * r

\* squared Euclidean distance between two points
DistSq(p, q) == Sq(p[1] - q[1]) + Sq(p[2] - q[2]) + Sq(p[3] - q[3])

CounterAtLimit == pre.step_in_episode # Undefined /\ pre.step_in_episode >= max_steps
CounterBelowLimit == pre.step_in_episode # Undefined /\ pre.step_in_episode < max_steps
AtGoal == Below(ret.current_distance, 1)
Outside == Above(DistSq(observation[1], <<0, 0, -2>>), safe_bound)
Outcome(name) == ret.reward = Reward(name) /\ ret.done

WellFormed(obs) == Len(obs) = 81 /\ \A i \in 1 .. Len(obs) : Len(obs[i]) = 3

C1_AllThreeScoredAsCollision ==
    /\ Returns /\ ret.has_collided /\ pre.step_in_episode = max_steps /\ AtGoal
    /\ Outcome("REWARD_COLLISION")

\* C2 as stated: reset zeroes both counters, and a step that returns
\* terminal=true increments neither counter, one that returns terminal=false
\* being the only kind that increments them.
C2_OnlyNonTerminalStepsIncrement ==
    /\ lastCall = "reset" => step_count = 0 /\ step_in_episode = 0
    /\ Returns /\ ret.done => step_count <= pre.step_count /\ step_in_episode <= 0

\* C2 amended: reset zeroes both counters; a step that returns terminal=false
\* adds one to the per-episode counter and a step that returns terminal=true
\* sets it to zero; every step that returns, terminal or not, adds one to
\* step_count.
C2_CountersPerStep ==
    /\ lastCall = "reset" => step_count = 0 /\ step_in_episode = 0
    /\ Returns => step_count = pre.step_count + 1
    /\ Returns /\ ret.done => step_in_episode = 0
    /\ Returns /\ ~ret.done =>
           pre.step_in_episode # Undefined /\ step_in_episode = pre.step_in_episode + 1

C2_TerminalStepCounted ==
    /\ Returns /\ ret.done /\ reset_called
    /\ pre.step_count >= 1 /\ step_count = pre.step_count + 1

\* C3: the previous and current distances handed to the reward function are
\* the Euclidean distances between the drone position (row 0 of the
\* observation) and the target, whatever the LiDAR rows hold.
C3_DistanceIsDroneToTarget ==
    Returns =>
        /\ ret.prev_distance = DistSq(ret.prev_position, target_pos)
        /\ ret.current_distance = DistSq(observation[1], target_pos)

\* C4: for a raw cloud of n points the state query returns 81 rows of 3 values:
\* the drone position, the first min(n, 80) points in order, then zero rows.
C4_ObservationLayout ==
    lastCall \in {"reset", "step"} =>
        LET n == Len(simCloud) \div 3
            m == IF n < 80 THEN n ELSE 80
        IN  /\ WellFormed(observation)
            /\ observation[1] = simPos
            /\ \A i \in 1 .. m :
                   observation[i + 1]
                       = <<simCloud[3 * i - 2], simCloud[3 * i - 1], simCloud[3 * i]>>
            /\ \A i \in (m + 1) .. 80 : observation[i + 1] = <<0, 0, 0>>

C4_Truncated == Returns /\ Len(simCloud) = 3 * 81

C4_Padded == Returns /\ Len(simCloud) = 3

\* C5: with no collision, the counter below max_steps and the current distance
\* at least 1, the boundary branch fires (out-of-bounds reward, terminal,
\* counter reset) exactly when the distance from (0,0,-2) is strictly greater
\* than safe_bound; at safe_bound or less the step is non-terminal.
C5_BoundaryStrict ==
    Returns /\ ~ret.has_collided /\ CounterBelowLimit /\ ~AtGoal =>
        IF Outside
        THEN Outcome("REWARD_OUT_OF_BOUNDS") /\ step_in_episode = 0
        ELSE ~ret.done

C5_OnTheBoundary ==
    /\ Returns /\ ~ret.has_collided /\ CounterBelowLimit /\ ~AtGoal
    /\ DistSq(observation[1], <<0, 0, -2>>) = safe_bound * safe_bound
    /\ ~ret.done

C5_BeyondTheBoundary ==
    /\ Returns /\ ~ret.has_collided /\ CounterBelowLimit /\ ~AtGoal /\ Outside
    /\ Outcome("REWARD_OUT_OF_BOUNDS")

C6_Approached ==
    Returns /\ ~ret.done /\ ret.prev_distance > ret.current_distance

C6_Receded ==
    Returns /\ ~ret.done /\ ret.prev_distance < ret.current_distance

\* C7: after any sequence of step calls a reset leaves both counters at zero
\* and returns an observation of 81 rows by 3 columns.
C7_ResetZeroesCounters ==
    lastCall = "reset" =>
        step_count = 0 /\ step_in_episode = 0 /\ WellFormed(observation)

C7_ResetAfterSteps ==
    lastCall = "reset" /\ pre.step_count > 0 /\ pre.step_in_episode > 0

\* C8: after a reset the per-episode counter never exceeds max_steps, and a run
\* of consecutive steps returning terminal=false is at most max_steps long.
C8_EpisodeBounded ==
    reset_called =>
        /\ step_in_episode >= 0 /\ step_in_episode <= max_steps
        /\ run <= max_steps

C8_LimitEndsTheRun ==
    /\ reset_called /\ Returns /\ ~ret.has_collided
    /\ pre.step_in_episode = max_steps /\ ret.done /\ run = 0

\* C9 as stated: while reset has never been called the per-episode counter is
\* undefined, and only a step whose collision query reports a collision
\* returns normally.
C9_UndefinedUntilReset ==
    ~reset_called =>
        /\ step_in_episode = Undefined
        /\ Returns => ret.has_collided

\* C9 amended: while reset has never been called the per-episode counter is
\* undefined until a step whose collision query reports a collision sets it to
\* zero; a step made while it is undefined fails with an error if no collision
\* is reported, after its velocity command was flown and without incrementing
\* step_count, and returns the collision penalty if one is.
C9_UndefinedUntilSet ==
    /\ lastCall = "init" => step_in_episode = Undefined
    /\ reset_called => step_in_episode # Undefined
    /\ lastCall = "step_error" => pre.step_in_episode = Undefined
    /\ lastCall \in {"step", "step_error"} /\ pre.step_in_episode = Undefined =>
           IF ret.has_collided
           THEN /\ Returns /\ Outcome("REWARD_COLLISION")
                /\ step_in_episode = 0 /\ step_count = pre.step_count + 1
           ELSE /\ lastCall = "step_error"
                /\ step_in_episode = Undefined /\ step_count = pre.step_count
                /\ ret.command = <<ret.action[1], ret.action[2], ret.action[3], 5>>
                /\ \A j \in 1 .. 3 :
                       2 * (simPos[j] - ret.prev_position[j]) = ret.action[j]

C9_RaisedAfterMoving ==
    lastCall = "step_error" /\ ~ret.has_collided /\ simPos # ret.prev_position

\* C10: two step calls from the same adapter and simulator state whose actions
\* differ only in the yaw rate issue the same velocity command (vx, vy, vz,
\* duration 0.5) and give the same observation, reward, terminal flag and
\* counters.
C10_YawRateIgnored ==
    /\ lastCall \in {"step", "step_error"} =>
           ret.command = <<ret.action[1], ret.action[2], ret.action[3], 5>>
    /\ \A a1 \in Actions, a2 \in Actions :
           a1[1] = a2[1] /\ a1[2] = a2[2] /\ a1[3] = a2[3] /\ a1[4] < a2[4] =>
               \A cloud2 \in Clouds, has_collided \in BOOLEAN :
                   step(a1, cloud2, has_collided) = step(a2, cloud2, has_collided)

C10_SteppedWithYaw == Returns /\ ret.action[4] # 0

====
